---- MODULE Spec2Model ----
(***************************************************************************)
(* A model of the DynamoDB key-value adapter of linera-views               *)
(* (src/linera-views/src/dynamo_db.rs): the table as the backing service   *)
(* keeps it, the paginated key scan, the batched writer, the read of one   *)
(* key, the creation of the table and the derivation of sub-scopes.        *)
(*                                                                         *)
(* A byte string is a sequence of numbers in 0..255.  The backing service  *)
(* is modelled at its wire contract: one network call is one step, which   *)
(* either fails (and changes nothing) or is applied as a whole.            *)
(***************************************************************************)
EXTENDS Integers, Sequences, FiniteSets, TLC

(***************************************************************************)
(* Bounds of the model.                                                    *)
(***************************************************************************)
\* the longest batch drawn over the small operations
MaxOps == 3
\* the length of the long runs of keys (more than one chunk of 25)
MaxRun == 26
\* how many times the caller submits the same batch
MaxAttempts == 2
\* how many calls of create_table_if_needed are made in all
MaxCalls == 3

(***************************************************************************)
(* Option and Result values.                                               *)
(***************************************************************************)
None == [some |-> FALSE]

Some(x) == [some |-> TRUE, val |-> x]

Ok(x) == [ok |-> TRUE, val |-> x]

Err(e) == [ok |-> FALSE, err |-> e]

Unit == "unit"

(***************************************************************************)
(* Byte strings: prefixes and the lexicographic order of the sort key.     *)
(***************************************************************************)
IsPrefix(p, k) == Len(p) <= Len(k) /\ SubSeq(k, 1, Len(p)) = p

MinLen(a, b) == IF Len(a) <= Len(b) THEN Len(a) ELSE Len(b)

LexLess(a, b) ==
    \E i \in 1..(MinLen(a, b) + 1) :
        /\ \A j \in 1..(i - 1) : a[j] = b[j]
        /\ \/ i > Len(a) /\ i <= Len(b)
           \/ i <= Len(a) /\ i <= Len(b) /\ a[i] < b[i]

MinKey(S) == CHOOSE x \in S : \A y \in S : x = y \/ LexLess(x, y)

RECURSIVE FirstKeys(_, _)
\* the n smallest keys of S, ascending
FirstKeys(S, n) ==
    IF n = 0 \/ S = {} THEN <<>>
    ELSE LET m == MinKey(S) IN <<m>> \o FirstKeys(S \ {m}, n - 1)

SortKeys(S) == FirstKeys(S, Cardinality(S))

Range(s) == {s[i] : i \in 1..Len(s)}

(***************************************************************************)
(* Attribute values and items (HashMap<String, AttributeValue>).           *)
(***************************************************************************)
PARTITION_ATTRIBUTE == "item_partition"

DUMMY_PARTITION_KEY == <<0>>

KEY_ATTRIBUTE == "item_key"

VALUE_ATTRIBUTE == "item_value"

KEY_VALUE_ATTRIBUTE == {"item_key", "item_value"}

\* AttributeValue::B(Blob)
B(bytes) == [t |-> "B", v |-> bytes]

\* AttributeValue::S, one of the non-binary kinds
S(bytes) == [t |-> "S", v |-> bytes]

build_key(key) ==
    [a \in {PARTITION_ATTRIBUTE, KEY_ATTRIBUTE} |->
        IF a = PARTITION_ATTRIBUTE THEN B(DUMMY_PARTITION_KEY) ELSE B(key)]

\* faulty variant of build_key_value: the key bytes are stored as the value
build_key_value_key_as_value(key, value) ==
    [a \in {PARTITION_ATTRIBUTE, KEY_ATTRIBUTE, VALUE_ATTRIBUTE} |->
        IF a = PARTITION_ATTRIBUTE THEN B(DUMMY_PARTITION_KEY) ELSE B(key)]

build_key_value(key, value) ==
    [a \in {PARTITION_ATTRIBUTE, KEY_ATTRIBUTE, VALUE_ATTRIBUTE} |->
        IF a = PARTITION_ATTRIBUTE THEN B(DUMMY_PARTITION_KEY)
        ELSE IF a = KEY_ATTRIBUTE THEN B(key) ELSE B(value)]

\* the slice &blob[prefix_len..]
SliceFrom(bytes, prefix_len) == SubSeq(bytes, prefix_len + 1, Len(bytes))

\* faulty variant of extract_key: a missing or non-binary key attribute
\* reads as the empty key
extract_key_lenient(prefix_len, attributes) ==
    IF KEY_ATTRIBUTE \in DOMAIN attributes /\ attributes[KEY_ATTRIBUTE].t = "B"
    THEN Ok(SliceFrom(attributes[KEY_ATTRIBUTE].v, prefix_len))
    ELSE Ok(<<>>)

extract_key(prefix_len, attributes) ==
    IF KEY_ATTRIBUTE \notin DOMAIN attributes THEN Err("MissingKey")
    ELSE IF attributes[KEY_ATTRIBUTE].t = "B"
         THEN IF prefix_len <= Len(attributes[KEY_ATTRIBUTE].v)
              THEN Ok(SliceFrom(attributes[KEY_ATTRIBUTE].v, prefix_len))
              ELSE Err("panic")
         ELSE Err("WrongKeyType")

\* faulty variant of extract_value_owned: a missing or non-binary value
\* attribute reads as an empty value
extract_value_owned_lenient(attributes) ==
    IF VALUE_ATTRIBUTE \in DOMAIN attributes /\ attributes[VALUE_ATTRIBUTE].t = "B"
    THEN Ok(attributes[VALUE_ATTRIBUTE].v)
    ELSE Ok(<<>>)

extract_value_owned(attributes) ==
    IF VALUE_ATTRIBUTE \notin DOMAIN attributes THEN Err("MissingValue")
    ELSE IF attributes[VALUE_ATTRIBUTE].t = "B"
         THEN Ok(attributes[VALUE_ATTRIBUTE].v)
         ELSE Err("WrongValueType")

(***************************************************************************)
(* State.                                                                  *)
(***************************************************************************)
VARIABLES
    table,      \* the table of the backing service: sort key -> item
    paging,     \* where the backing service cuts the result of a query into
                \* pages: the keys a page ends with, and whether the last
                \* page carries a continuation token
    call,       \* per caller, the locals of its write_batch call
    sent,       \* the batch-write requests submitted so far, in order
    read,       \* the last read_key_bytes call: its key, what it returned, and
                \* how many batch-write requests had been submitted before it
    scan,       \* the locals of a consumer of find_keys_by_prefix
    ensure,     \* the table of create_table_if_needed and its callers
    scope,      \* the child contexts of clone_with_sub_scope and their calls
    name        \* a string given to TableName::from_str, and what it returned

vars == <<table, paging, call, sent, read, scan, ensure, scope, name>>

(***************************************************************************)
(* The backing service: the table maps a sort key to its item.  A query    *)
(* returns the items whose key begins with the prefix, past the exclusive  *)
(* start key, in ascending key order, up to the end of the page: the first *)
(* of them whose key is in paging.ends, or the last one.  The continuation *)
(* token is the key the page ends with.  The same query on the same table  *)
(* returns the same page.  A service that stops evaluating at a key that   *)
(* holds no item (paging.hollow) returns the items before it, possibly     *)
(* none, with that key as the token; without such keys a page is empty     *)
(* only when nothing is left to return.                                    *)
(***************************************************************************)
Paging(ends, token_at_end) ==
    [ends |-> ends, token_at_end |-> token_at_end, hollow |-> {}]

\* a service that also ends a page at the keys of hollow that hold no item
SparsePaging(ends, token_at_end, hollow) ==
    [ends |-> ends, token_at_end |-> token_at_end, hollow |-> hollow]

Project(item, attrs) == [a \in (DOMAIN item) \cap attrs |-> item[a]]

\* faulty variant of Matching: the key condition selects the partition only,
\* without begins_with(key, :prefix)
Matching_partition_only(tbl, key_prefix, start_key_map) ==
    {k \in DOMAIN tbl :
        start_key_map.some => LexLess(start_key_map.val[KEY_ATTRIBUTE].v, k)}

Matching(tbl, key_prefix, start_key_map) ==
    {k \in DOMAIN tbl :
        /\ IsPrefix(key_prefix, k)
        /\ start_key_map.some => LexLess(start_key_map.val[KEY_ATTRIBUTE].v, k)}

QueryOutput(items, last_evaluated_key) ==
    [items |-> items, last_evaluated_key |-> last_evaluated_key]

\* the responses get_query_output may receive (its failure apart)
get_query_output(tbl, attribute_str, key_prefix, start_key_map) ==
    LET M == Matching(tbl, key_prefix, start_key_map)
        H == {h \in paging.hollow \ DOMAIN tbl :
                 /\ IsPrefix(key_prefix, h)
                 /\ start_key_map.some => LexLess(start_key_map.val[KEY_ATTRIBUTE].v, h)}
        m == Cardinality(M \cup H)
        ks == SortKeys(M \cup H)
        stops == {i \in 1..m : ks[i] \in paging.ends \/ ks[i] \in H}
        n == IF stops = {} THEN m ELSE CHOOSE i \in stops : \A j \in stops : i <= j
        Stored(k) == k \in M
        page == SelectSeq(SubSeq(ks, 1, n), Stored)
        items == [i \in 1..Len(page) |-> Project(tbl[page[i]], attribute_str)]
    IN  IF m = 0 THEN {QueryOutput(<<>>, None)}
        ELSE IF n < m \/ paging.token_at_end
             THEN {QueryOutput(items, Some(build_key(ks[n])))}
             ELSE {QueryOutput(items, None)}

\* WriteRequest with a DeleteRequest / with a PutRequest
DeleteRequest(key) == [kind |-> "DeleteRequest", key |-> build_key(key)]

PutRequest(key, value) == [kind |-> "PutRequest", item |-> build_key_value(key, value)]

RequestKey(r) ==
    IF r.kind = "DeleteRequest" THEN r.key[KEY_ATTRIBUTE].v ELSE r.item[KEY_ATTRIBUTE].v

\* the table after a batch-write request the service accepted: per key, the
\* last write request of the list decides
batch_write_item(tbl, requests) ==
    LET n == Len(requests)
        Last(k) == CHOOSE i \in 1..n :
                      /\ RequestKey(requests[i]) = k
                      /\ \A j \in (i + 1)..n : RequestKey(requests[j]) # k
        touched == {RequestKey(requests[i]) : i \in 1..n}
        deleted == {k \in touched : requests[Last(k)].kind = "DeleteRequest"}
    IN  [k \in ((DOMAIN tbl) \cup touched) \ deleted |->
            IF k \in touched THEN requests[Last(k)].item ELSE tbl[k]]

\* the response of get_item
get_item(tbl, key_map) ==
    IF key_map[KEY_ATTRIBUTE].v \in DOMAIN tbl
    THEN Some(tbl[key_map[KEY_ATTRIBUTE].v]) ELSE None

(***************************************************************************)
(* Batch::simplify (linera-views common, not among the sources): per key   *)
(* the last Put or Delete wins, a DeletePrefix drops the earlier Put and   *)
(* Delete operations on the keys it covers and the earlier DeletePrefix    *)
(* operations it covers.  The result lists the DeletePrefix operations     *)
(* first, then one operation per key, both in ascending order.             *)
(***************************************************************************)
Put(key, value) == [op |-> "Put", key |-> key, value |-> value]

Delete(key) == [op |-> "Delete", key |-> key]

DeletePrefix(key_prefix) == [op |-> "DeletePrefix", key_prefix |-> key_prefix]

simplify(ops) ==
    LET n == Len(ops)
        IsDP(i) == ops[i].op = "DeletePrefix"
        \* no later DeletePrefix covers the byte string k
        Survives(i, k) ==
            \A j \in (i + 1)..n : IsDP(j) => ~IsPrefix(ops[j].key_prefix, k)
        prefixes ==
            {ops[i].key_prefix : i \in {j \in 1..n : IsDP(j) /\ Survives(j, ops[j].key_prefix)}}
        keys == {ops[i].key : i \in {j \in 1..n : ~IsDP(j) /\ Survives(j, ops[j].key)}}
        Last(k) ==
            CHOOSE i \in 1..n :
                /\ ~IsDP(i) /\ ops[i].key = k
                /\ \A j \in (i + 1)..n : IsDP(j) \/ ops[j].key # k
        ps == SortKeys(prefixes)
        ks == SortKeys(keys)
    IN  [i \in 1..Len(ps) |-> DeletePrefix(ps[i])]
        \o [i \in 1..Len(ks) |-> ops[Last(ks[i])]]

\* the callers sharing the client
NumCallers == 2

Callers == 1..NumCallers

max_size_batch_write_item == 25

(***************************************************************************)
(* DynamoDbKeys and DynamoDbKeyIterator.  DynamoDbKeys holds the response   *)
(* of the query of find_keys_by_prefix.  The iterator holds the response   *)
(* of the query of iterator() (response), whose continuation token it      *)
(* follows, and the items not yet yielded (iter): first the items of       *)
(* self.response, the response DynamoDbKeys holds, then those of each page *)
(* next() fetches.                                                         *)
(***************************************************************************)
DynamoDbKeys(key_prefix, response) ==
    [key_prefix |-> key_prefix, prefix_len |-> Len(key_prefix), response |-> response]

\* DynamoDbKeys::iterator, given the response of the query it issues
iterator(keys, response) ==
    [key_prefix |-> keys.key_prefix, prefix_len |-> Len(keys.key_prefix),
     response |-> response, iter |-> keys.response.items]

\* self.iter.next().map(|x| extract_key(self.prefix_len, x))
IterNextKey(it) ==
    IF it.iter = <<>> THEN [it |-> it, out |-> None]
    ELSE [it |-> [it EXCEPT !.iter = Tail(@)],
          out |-> Some(extract_key(it.prefix_len, Head(it.iter)))]

\* whether this call of next() issues a page query
NextFetches(it) == it.response.last_evaluated_key.some /\ it.iter = <<>>

\* faulty variant of next: the continuation token is ignored
next_first_page_only(it, q) ==
    IF it.iter = <<>> THEN [it |-> it, out |-> None]
    ELSE [it |-> [it EXCEPT !.iter = Tail(@)],
          out |-> Some(extract_key(it.prefix_len, Head(it.iter)))]

\* DynamoDbKeyIterator::next; q is the outcome of the page query, read only
\* when the call issues one: Ok(response) or Err("Query")
next(it, q) ==
    IF ~it.response.last_evaluated_key.some THEN IterNextKey(it)
    ELSE IF it.iter # <<>> THEN IterNextKey(it)
    ELSE IF q.ok
         THEN IterNextKey([it EXCEPT !.response = q.val, !.iter = q.val.items])
         ELSE [it |-> it, out |-> Some(Err(q.err))]

(***************************************************************************)
(* write_batch.  Its locals, per caller; pc names the network call the     *)
(* caller is suspended before:                                             *)
(*   "find"      the query of find_keys_by_prefix,                         *)
(*   "iterator"  the query of DynamoDbKeys::iterator,                      *)
(*   "next"      the page query of DynamoDbKeyIterator::next,              *)
(*   "delete"    the batch-write of the next chunk of delete_list,         *)
(*   "insert"    the batch-write of the next chunk of insert_list,         *)
(* or "idle" (no call yet) and "done" (the call returned result).          *)
(* The ghost fields orig, before, attempts, paged and start record the     *)
(* table at the caller's first call, the table at the start of the current *)
(* call, the number of calls, whether a scan of the call took a page query *)
(* of next(), and how many batch-write requests had been submitted when    *)
(* the current call started.                                               *)
(***************************************************************************)
IdleCall ==
    [pc |-> "idle", batch |-> <<>>, operations |-> <<>>, op_idx |-> 1,
     delete_list |-> <<>>, insert_list |-> <<>>,
     keys |-> None, it |-> None, chunk |-> 0, result |-> None,
     orig |-> <<>>, before |-> <<>>, attempts |-> 0, paged |-> FALSE, start |-> 0]

Return(rec, result) == [rec EXCEPT !.pc = "done", !.result = Some(result)]

\* faulty variant of NumChunks: chunks_exact, which drops the remainder
NumChunks_exact(list) == Len(list) \div max_size_batch_write_item

\* faulty variant of Chunk: every chunk is the first one
Chunk_first(list, i) ==
    SubSeq(list, 1, IF max_size_batch_write_item <= Len(list)
                    THEN max_size_batch_write_item ELSE Len(list))

\* faulty variant of Phases: the inserts are submitted before the deletes
Phases_inserts_first == <<"insert", "delete">>

\* the number of chunks of list.chunks(max_size_batch_write_item)
NumChunks(list) == (Len(list) + max_size_batch_write_item - 1) \div max_size_batch_write_item

\* chunk number i (from 0) of list.chunks(max_size_batch_write_item)
Chunk(list, i) ==
    SubSeq(list, i * max_size_batch_write_item + 1,
           IF (i + 1) * max_size_batch_write_item <= Len(list)
           THEN (i + 1) * max_size_batch_write_item ELSE Len(list))

\* the two loops over chunks, in the order of the code
Phases == <<"delete", "insert">>

ListOf(rec, phase) == IF phase = "delete" THEN rec.delete_list ELSE rec.insert_list

\* faulty variant of ChunksFrom: a request is made for an empty list too
ChunksFrom_empty_too(rec, p) ==
    IF p <= 2 THEN [rec EXCEPT !.pc = Phases[p], !.chunk = 0]
    ELSE Return(rec, Ok(Unit))

\* the loops over chunks from loop number p on: the first chunk to submit, if any
ChunksFrom(rec, p) ==
    IF p <= 2 /\ ListOf(rec, Phases[p]) # <<>>
    THEN [rec EXCEPT !.pc = Phases[p], !.chunk = 0]
    ELSE IF p + 1 <= 2 /\ ListOf(rec, Phases[p + 1]) # <<>>
    THEN [rec EXCEPT !.pc = Phases[p + 1], !.chunk = 0]
    ELSE Return(rec, Ok(Unit))

\* after the loop over the operations
StartChunks(rec) == ChunksFrom(rec, 1)

IsDelete(o) == o.op = "Delete"

IsPut(o) == o.op = "Put"

\* the loop over batch.simplify().operations, up to its next query: the Delete
\* and Put operations before the next DeletePrefix are pushed on the two lists
ForOps(rec) ==
    LET n == Len(rec.operations)
        stops == {j \in rec.op_idx..n : rec.operations[j].op = "DeletePrefix"}
        stop == IF stops = {} THEN n + 1
                ELSE CHOOSE j \in stops : \A i \in stops : j <= i
        seg == SubSeq(rec.operations, rec.op_idx, stop - 1)
        dels == SelectSeq(seg, IsDelete)
        puts == SelectSeq(seg, IsPut)
        rec2 == [rec EXCEPT
                   !.delete_list = @ \o [i \in 1..Len(dels) |-> dels[i].key],
                   !.insert_list = @ \o [i \in 1..Len(puts) |-> <<puts[i].key, puts[i].value>>],
                   !.op_idx = stop]
    IN  IF stop <= n THEN [rec2 EXCEPT !.pc = "find"] ELSE StartChunks(rec2)

\* faulty variant of FullKey: the short key is taken for the stored key
FullKey_short_only(key_prefix, short_key) == short_key

\* key_prefix.clone() extended with the short key
FullKey(key_prefix, short_key) == key_prefix \o short_key

RECURSIVE ForKeys(_, _)
\* the loop over the iterator of a DeletePrefix, up to its next page query;
\* q is the outcome of the page query of the first next() call, if it has one
ForKeys(rec, q) ==
    LET r == next(rec.it.val, q)
        key_prefix == rec.operations[rec.op_idx].key_prefix
    IN  IF ~r.out.some
        THEN ForOps([rec EXCEPT !.it = None, !.keys = None, !.op_idx = @ + 1])
        ELSE IF ~r.out.val.ok THEN Return(rec, Err(r.out.val.err))
        ELSE LET rec2 == [rec EXCEPT !.it = Some(r.it),
                                     !.delete_list = Append(@, FullKey(key_prefix, r.out.val.val))]
             IN  IF NextFetches(r.it) THEN [rec2 EXCEPT !.pc = "next"]
                 ELSE ForKeys(rec2, q)

\* write_batch up to its first network call
write_batch_start(rec, tbl, batch) ==
    ForOps([rec EXCEPT !.batch = batch, !.operations = simplify(batch), !.op_idx = 1,
                       !.delete_list = <<>>, !.insert_list = <<>>,
                       !.keys = None, !.it = None, !.chunk = 0, !.result = None,
                       !.orig = IF rec.attempts = 0 THEN tbl ELSE @,
                       !.before = tbl, !.attempts = @ + 1, !.paged = FALSE])

\* faulty variant of ChunkRequests: the items of a chunk in reverse order
ChunkRequests_reversed(rec) ==
    IF rec.pc = "delete"
    THEN LET c == Chunk(rec.delete_list, rec.chunk)
         IN  [i \in 1..Len(c) |-> DeleteRequest(c[Len(c) + 1 - i])]
    ELSE LET c == Chunk(rec.insert_list, rec.chunk)
         IN  [i \in 1..Len(c) |-> PutRequest(c[Len(c) + 1 - i][1], c[Len(c) + 1 - i][2])]

\* the request of the chunk the call is suspended before
ChunkRequests(rec) ==
    IF rec.pc = "delete"
    THEN LET c == Chunk(rec.delete_list, rec.chunk)
         IN  [i \in 1..Len(c) |-> DeleteRequest(c[i])]
    ELSE LET c == Chunk(rec.insert_list, rec.chunk)
         IN  [i \in 1..Len(c) |-> PutRequest(c[i][1], c[i][2])]

\* after a chunk was written: the next chunk, the other list, or the return
AfterChunk(rec) ==
    IF rec.chunk + 1 < NumChunks(ListOf(rec, rec.pc)) THEN [rec EXCEPT !.chunk = @ + 1]
    ELSE ChunksFrom(rec, IF rec.pc = Phases[1] THEN 2 ELSE 3)

\* faulty variant of OnChunkFailure: the error is dropped and the loop goes on
OnChunkFailure_swallowed(rec) ==
    IF rec.chunk + 1 < NumChunks(ListOf(rec, rec.pc)) THEN [rec EXCEPT !.chunk = @ + 1]
    ELSE ChunksFrom(rec, IF rec.pc = Phases[1] THEN 2 ELSE 3)

\* the batch-write of a chunk failed: `.await?` returns the error
OnChunkFailure(rec) == Return(rec, Err("BatchWriteItem"))

(***************************************************************************)
(* Actions of write_batch, one per network call.                           *)
(***************************************************************************)
\* the call itself, up to its first network call
write_batch(c, batch) ==
    /\ call[c].pc \in {"idle", "done"}
    /\ call' = [call EXCEPT ![c] = [write_batch_start(@, table, batch)
                                       EXCEPT !.start = Len(sent)]]
    /\ UNCHANGED <<table, paging, sent, read, scan, ensure, scope, name>>

\* find_keys_by_prefix: its query answers
FindKeys(c) ==
    /\ call[c].pc = "find"
    /\ \E response \in get_query_output(table, {KEY_ATTRIBUTE},
                           call[c].operations[call[c].op_idx].key_prefix, None) :
         call' = [call EXCEPT ![c] =
                    [@ EXCEPT !.pc = "iterator",
                              !.keys = Some(DynamoDbKeys(
                                  call[c].operations[call[c].op_idx].key_prefix,
                                  response))]]
    /\ UNCHANGED <<table, paging, sent, read, scan, ensure, scope, name>>

\* DynamoDbKeys::iterator: its query answers, and the loop runs on
Iterator(c) ==
    /\ call[c].pc = "iterator"
    /\ \E response \in get_query_output(table, {KEY_ATTRIBUTE},
                           call[c].keys.val.key_prefix, None) :
         LET it == iterator(call[c].keys.val, response)
             rec == [call[c] EXCEPT !.it = Some(it)]
         IN  call' = [call EXCEPT ![c] =
                        IF NextFetches(it) THEN [rec EXCEPT !.pc = "next"]
                        ELSE ForKeys(rec, Err("none"))]
    /\ UNCHANGED <<table, paging, sent, read, scan, ensure, scope, name>>

\* DynamoDbKeyIterator::next: its page query answers, and the loop runs on
NextPage(c) ==
    /\ call[c].pc = "next"
    /\ \E response \in get_query_output(table, {KEY_ATTRIBUTE},
                           call[c].it.val.key_prefix,
                           call[c].it.val.response.last_evaluated_key) :
         call' = [call EXCEPT ![c] = ForKeys([@ EXCEPT !.paged = TRUE], Ok(response))]
    /\ UNCHANGED <<table, paging, sent, read, scan, ensure, scope, name>>

\* a query of the call fails: the error is returned
QueryFails(c) ==
    /\ call[c].pc \in {"find", "iterator", "next"}
    /\ call' = [call EXCEPT ![c] =
                  IF @.pc = "next" THEN ForKeys(@, Err("Query"))
                  ELSE Return(@, Err("Query"))]
    /\ UNCHANGED <<table, paging, sent, read, scan, ensure, scope, name>>

\* the batch-write of the next chunk is accepted
SubmitChunk(c) ==
    /\ call[c].pc \in {"delete", "insert"}
    /\ table' = batch_write_item(table, ChunkRequests(call[c]))
    /\ sent' = Append(sent, [caller |-> c, attempt |-> call[c].attempts,
                             requests |-> ChunkRequests(call[c]), ok |-> TRUE])
    /\ call' = [call EXCEPT ![c] = AfterChunk(@)]
    /\ UNCHANGED <<paging, read, scan, ensure, scope, name>>

\* the batch-write of the next chunk fails: the error is returned
ChunkFails(c) ==
    /\ call[c].pc \in {"delete", "insert"}
    /\ sent' = Append(sent, [caller |-> c, attempt |-> call[c].attempts,
                             requests |-> ChunkRequests(call[c]), ok |-> FALSE])
    /\ call' = [call EXCEPT ![c] = OnChunkFailure(@)]
    /\ UNCHANGED <<table, paging, read, scan, ensure, scope, name>>

\* read_key_bytes: get_item answers or fails
ReadResult(response_item) ==
    IF response_item.some
    THEN LET v == extract_value_owned(response_item.val)
         IN  IF v.ok THEN Ok(Some(v.val)) ELSE v
    ELSE Ok(None)

read_key_bytes(key) ==
    /\ \E result \in {ReadResult(get_item(table, build_key(key))), Err("Get")} :
         read' = Some([key |-> key, result |-> result, at |-> Len(sent)])
    /\ UNCHANGED <<table, paging, call, sent, scan, ensure, scope, name>>

(***************************************************************************)
(* Inputs: keys, values, tables and batches.                               *)
(***************************************************************************)
Values == {<<1>>, <<2>>}

\* the variables of the other operations, where they are not used
IdleScan ==
    [pc |-> "idle", key_prefix |-> <<>>, keys |-> None, it |-> None,
     yielded |-> <<>>, error |-> None, pages |-> 0, at_error |-> None,
     page_token |-> None, queries |-> <<>>]

IdleName == [string |-> <<>>, result |-> None]

IdleEnsure ==
    [exists |-> FALSE,
     pc |-> [c \in Callers |-> "idle"],
     result |-> [c \in Callers |-> None],
     calls |-> 0,
     sent_at |-> [c \in Callers |-> 0],
     log |-> <<>>]

\* the client from_config builds for a table
DynamoDbClient(tbl) == [client |-> "Client", table |-> tbl]

\* the context the children are derived from: DynamoDbContext { db, base_key,
\* extra }
IdleScope ==
    [parent |-> [db |-> DynamoDbClient("table"), base_key |-> <<>>, extra |-> <<0>>],
     child |-> [c \in Callers |-> None],
     value |-> [c \in Callers |-> None]]

\* the value of the items stored before the first call
OldValue == <<7>>

SmallKeys == {<<1, 1>>, <<1, 2>>, <<2, 1>>}

\* a table of well-formed items with the given keys
TableOf(keyset, value) == [k \in keyset |-> build_key_value(k, value)]

SmallTables == {TableOf(ks, OldValue) : ks \in SUBSET SmallKeys}

SmallOps ==
    {Put(<<1, 1>>, v) : v \in Values}
    \cup {Put(<<2, 1>>, <<1>>), Delete(<<1, 1>>), DeletePrefix(<<1>>)}

\* one page, a first page of one key, pages of one key; the last page with
\* or without a continuation token
SmallPagings ==
    {Paging({}, FALSE), Paging({}, TRUE), Paging({<<1, 1>>}, FALSE), Paging(SmallKeys, TRUE)}

\* the caller submits one batch
SubmitOnce(c, batches) ==
    /\ call[c].pc = "idle"
    /\ \E b \in batches : write_batch(c, b)

SmallBatches == UNION {[1..n -> SmallOps] : n \in 0..MaxOps}

\* the caller may submit a batch again, MaxAttempts times in all
Submit(c, batches) ==
    /\ call[c].attempts < MaxAttempts
    /\ \E b \in batches :
         /\ call[c].attempts > 0 => b = call[c].batch
         /\ write_batch(c, b)

Init ==
    /\ table \in SmallTables
    /\ paging \in SmallPagings
    /\ call = [c \in Callers |-> IdleCall]
    /\ sent = <<>>
    /\ read = None
    /\ scan = IdleScan
    /\ ensure = IdleEnsure
    /\ scope = IdleScope
    /\ name = IdleName

Next ==
    \/ SubmitOnce(1, SmallBatches)
    \/ FindKeys(1)
    \/ Iterator(1)
    \/ NextPage(1)
    \/ QueryFails(1)
    \/ SubmitChunk(1)
    \/ ChunkFails(1)

Spec == Init /\ [][Next]_vars

(***************************************************************************)
(* Volumes above one chunk: runs of MaxRun keys under one first byte.      *)
(***************************************************************************)
RunKeys(p, n) == {<<p, i>> : i \in 1..n}

PutRun(p, n, v) == [i \in 1..n |-> Put(<<p, i>>, v)]

DeleteRun(p, n) == [i \in 1..n |-> Delete(<<p, i>>)]

BigTables ==
    {TableOf(RunKeys(1, n) \cup RunKeys(2, m), OldValue) : n \in {0, 2, MaxRun}, m \in {0, 1}}

BigBatches ==
    {<<DeletePrefix(<<1>>)>>,
     <<DeletePrefix(<<>>)>>,
     PutRun(1, MaxRun, <<1>>),
     DeleteRun(1, MaxRun),
     <<Put(<<1, 1>>, <<1>>), Delete(<<1, 1>>), Put(<<1, 1>>, <<2>>)>>,
     <<Put(<<1, 1>>, <<1>>), Put(<<2, 1>>, <<1>>), DeletePrefix(<<1>>)>>,
     <<DeletePrefix(<<1>>)>> \o PutRun(1, MaxRun, <<2>>),
     DeleteRun(1, MaxRun) \o PutRun(2, MaxRun, <<1>>)}

\* one page, pages of one key, pages of two keys, a last page of one key
BigPagings ==
    {Paging({}, FALSE),
     Paging(RunKeys(1, MaxRun) \cup RunKeys(2, 1), TRUE),
     Paging({<<1, 2 * i>> : i \in 1..(MaxRun \div 2)}, FALSE),
     Paging({<<1, MaxRun - 1>>}, TRUE)}

InitBig ==
    /\ table \in BigTables
    /\ paging \in BigPagings
    /\ call = [c \in Callers |-> IdleCall]
    /\ sent = <<>>
    /\ read = None
    /\ scan = IdleScan
    /\ ensure = IdleEnsure
    /\ scope = IdleScope
    /\ name = IdleName

NextBig ==
    \/ Submit(1, BigBatches)
    \/ FindKeys(1)
    \/ Iterator(1)
    \/ NextPage(1)
    \/ QueryFails(1)
    \/ SubmitChunk(1)
    \/ ChunkFails(1)

SpecBig == InitBig /\ [][NextBig]_vars

(***************************************************************************)
(* Reads: tables that may hold malformed items, and batches of one Put or  *)
(* one Delete.                                                             *)
(***************************************************************************)
ReadKeys == {<<1, 1>>, <<2, 1>>}

\* the items a table may hold under key k: well-formed, without the value
\* attribute, or with a value attribute that is not a binary blob
ItemsOf(k) ==
    {build_key_value(k, OldValue),
     build_key(k),
     [build_key_value(k, OldValue) EXCEPT ![VALUE_ATTRIBUTE] = S(OldValue)]}

ReadTables ==
    UNION {{t \in [ks -> UNION {ItemsOf(k) : k \in ks}] : \A k \in ks : t[k] \in ItemsOf(k)}
           : ks \in SUBSET ReadKeys}

ReadBatches ==
    {<<Put(k, v)>> : k \in ReadKeys, v \in Values} \cup {<<Delete(k)>> : k \in ReadKeys}

InitRead ==
    /\ table \in ReadTables
    /\ paging = Paging({}, FALSE)
    /\ call = [c \in Callers |-> IdleCall]
    /\ sent = <<>>
    /\ read = None
    /\ scan = IdleScan
    /\ ensure = IdleEnsure
    /\ scope = IdleScope
    /\ name = IdleName

\* a read is made while no write_batch call is in progress
Read(c) ==
    /\ call[c].pc \in {"idle", "done"}
    /\ \E k \in ReadKeys \cup {<<3>>} : read_key_bytes(k)

NextRead ==
    \/ Submit(1, ReadBatches)
    \/ SubmitChunk(1)
    \/ ChunkFails(1)
    \/ Read(1)

SpecRead == InitRead /\ [][NextRead]_vars

(***************************************************************************)
(* A consumer of find_keys_by_prefix: it asks for the keys, takes their    *)
(* iterator and calls next() any number of times, also after next()        *)
(* returned an error.  scan.pc is "idle", "iterator" (it holds the keys),  *)
(* "next" (it holds the iterator), "end" (next() returned None) or         *)
(* "failed" (the last call returned the error scan.error); scan.yielded    *)
(* lists the keys next() returned, scan.pages counts the answered page     *)
(* queries of next(), scan.at_error is the number of keys yielded before   *)
(* the first error, scan.page_token is the token returned with the page    *)
(* whose items the iterator hands out, and scan.queries lists the answered *)
(* page queries of next(): the token the query carried, the token of the   *)
(* page handed out at that time, and how many of its items were left.      *)
(***************************************************************************)
\* the outcomes of a query: a response, or its failure
QueryOutcomes(tbl, key_prefix, start_key_map) ==
    {Ok(r) : r \in get_query_output(tbl, {KEY_ATTRIBUTE}, key_prefix, start_key_map)}
    \cup {Err("Query")}

find_keys_by_prefix(key_prefix) ==
    /\ scan.pc = "idle"
    /\ \E q \in QueryOutcomes(table, key_prefix, None) :
         scan' = IF q.ok
                 THEN [scan EXCEPT !.pc = "iterator", !.key_prefix = key_prefix,
                                   !.keys = Some(DynamoDbKeys(key_prefix, q.val))]
                 ELSE [scan EXCEPT !.pc = "failed", !.key_prefix = key_prefix,
                                   !.error = Some(q.err)]
    /\ UNCHANGED <<table, paging, call, sent, read, ensure, scope, name>>

KeysIterator ==
    /\ scan.pc = "iterator"
    /\ \E q \in QueryOutcomes(table, scan.keys.val.key_prefix, None) :
         scan' = IF q.ok
                 THEN [scan EXCEPT !.pc = "next",
                                   !.it = Some(iterator(scan.keys.val, q.val)),
                                   !.page_token = scan.keys.val.response.last_evaluated_key]
                 ELSE [scan EXCEPT !.pc = "failed", !.error = Some(q.err)]
    /\ UNCHANGED <<table, paging, call, sent, read, ensure, scope, name>>

IteratorNext ==
    /\ scan.pc \in {"next", "failed"}
    /\ scan.it.some
    /\ \E q \in IF NextFetches(scan.it.val)
                 THEN QueryOutcomes(table, scan.it.val.key_prefix,
                                    scan.it.val.response.last_evaluated_key)
                 ELSE {Err("none")} :
         LET r == next(scan.it.val, q)
             answered == NextFetches(scan.it.val) /\ q.ok
             fetched == IF answered THEN 1 ELSE 0
             seen == IF answered
                     THEN [scan EXCEPT
                             !.pages = @ + 1,
                             !.queries = Append(@,
                                 [carried |-> scan.it.val.response.last_evaluated_key,
                                  page_token |-> scan.page_token,
                                  left |-> Len(scan.it.val.iter)]),
                             !.page_token = q.val.last_evaluated_key]
                     ELSE scan
         IN  scan' = IF ~r.out.some
                     THEN [seen EXCEPT !.pc = "end", !.it = Some(r.it)]
                     ELSE IF r.out.val.ok
                     THEN [seen EXCEPT !.pc = "next", !.it = Some(r.it),
                                       !.yielded = Append(@, r.out.val.val)]
                     ELSE [seen EXCEPT !.pc = "failed", !.it = Some(r.it),
                                       !.error = Some(r.out.val.err),
                                       !.at_error = IF @.some THEN @
                                                    ELSE Some(Len(scan.yielded))]
    /\ UNCHANGED <<table, paging, call, sent, read, ensure, scope, name>>

ScanKeys == {<<1>>, <<1, 1>>, <<1, 1, 1>>, <<1, 2>>, <<2>>}

ScanPrefixes == {<<>>, <<1>>, <<1, 1>>, <<3>>}

ScanTables == {TableOf(ks, OldValue) : ks \in SUBSET ScanKeys}

\* every way of cutting a result into pages
ScanPagings == {Paging(e, t) : e \in SUBSET ScanKeys, t \in BOOLEAN}

InitScan ==
    /\ table \in ScanTables
    /\ paging \in ScanPagings
    /\ call = [c \in Callers |-> IdleCall]
    /\ sent = <<>>
    /\ read = None
    /\ scan = IdleScan
    /\ ensure = IdleEnsure
    /\ scope = IdleScope
    /\ name = IdleName

NextScan ==
    \/ \E key_prefix \in ScanPrefixes : find_keys_by_prefix(key_prefix)
    \/ KeysIterator
    \/ IteratorNext

SpecScan == InitScan /\ [][NextScan]_vars

(***************************************************************************)
(* The same consumer on a service that may end a page at a key that holds  *)
(* no item, and so may return an empty page with a continuation token.     *)
(***************************************************************************)
SparseKeys == {<<1>>, <<1, 1>>, <<2>>}

SparseHollow == {<<0>>, <<1, 0>>, <<1, 2>>}

SparsePrefixes == {<<>>, <<1>>}

SparseTables == {TableOf(ks, OldValue) : ks \in SUBSET SparseKeys}

SparsePagings ==
    {SparsePaging(e, t, h) : e \in SUBSET SparseKeys, t \in BOOLEAN, h \in SUBSET SparseHollow}

InitSparse ==
    /\ table \in SparseTables
    /\ paging \in SparsePagings
    /\ call = [c \in Callers |-> IdleCall]
    /\ sent = <<>>
    /\ read = None
    /\ scan = IdleScan
    /\ ensure = IdleEnsure
    /\ scope = IdleScope
    /\ name = IdleName

NextSparse ==
    \/ \E key_prefix \in SparsePrefixes : find_keys_by_prefix(key_prefix)
    \/ KeysIterator
    \/ IteratorNext

SpecSparse == InitSparse /\ [][NextSparse]_vars

(***************************************************************************)
(* The same consumer while another client of the table writes: caller 2    *)
(* submits one batch of one Put or one Delete at any time of the scan.     *)
(***************************************************************************)
RaceKeys == {<<1>>, <<2>>, <<3>>}

RaceTables == {TableOf(ks, OldValue) : ks \in SUBSET RaceKeys}

RacePagings == {Paging(e, t) : e \in SUBSET RaceKeys, t \in BOOLEAN}

RaceBatches == {<<Delete(k)>> : k \in RaceKeys} \cup {<<Put(k, <<1>>)>> : k \in RaceKeys}

InitRace ==
    /\ table \in RaceTables
    /\ paging \in RacePagings
    /\ call = [c \in Callers |-> IdleCall]
    /\ sent = <<>>
    /\ read = None
    /\ scan = IdleScan
    /\ ensure = IdleEnsure
    /\ scope = IdleScope
    /\ name = IdleName

NextRace ==
    \/ find_keys_by_prefix(<<>>)
    \/ KeysIterator
    \/ IteratorNext
    \/ SubmitOnce(2, RaceBatches)
    \/ SubmitChunk(2)

SpecRace == InitRace /\ [][NextRace]_vars

(***************************************************************************)
(* A consumer of find_key_values_by_prefix: it asks for the key/value      *)
(* pairs, takes their borrowing or their owned iterator and calls next()   *)
(* until it returns None or an error.  It uses the variable scan: scan.pc  *)
(* is "idle", "key_values" (it holds the DynamoDbKeyValues), "kv_next" (it *)
(* holds the iterator), "end" or "failed"; scan.yielded lists the pairs    *)
(* next() returned.                                                        *)
(***************************************************************************)
extract_value(attributes) ==
    IF VALUE_ATTRIBUTE \notin DOMAIN attributes THEN Err("MissingValue")
    ELSE IF attributes[VALUE_ATTRIBUTE].t = "B"
         THEN Ok(attributes[VALUE_ATTRIBUTE].v)
         ELSE Err("WrongValueType")

extract_key_value(prefix_len, attributes) ==
    LET key == extract_key(prefix_len, attributes)
        value == extract_value(attributes)
    IN  IF ~key.ok THEN key
        ELSE IF ~value.ok THEN value
        ELSE Ok(<<key.val, value.val>>)

extract_key_value_owned(prefix_len, attributes) ==
    LET key == extract_key(prefix_len, attributes)
        value == extract_value_owned(attributes)
    IN  IF ~key.ok THEN key
        ELSE IF ~value.ok THEN value
        ELSE Ok(<<key.val, value.val>>)

DynamoDbKeyValues(prefix_len, response) ==
    [prefix_len |-> prefix_len, response |-> response]

\* DynamoDbKeyValues::iterator
KeyValuesIterator(key_values) ==
    [prefix_len |-> key_values.prefix_len, iter |-> key_values.response.items,
     owned |-> FALSE]

\* DynamoDbKeyValues::into_iterator_owned
into_iterator_owned(key_values) ==
    [prefix_len |-> key_values.prefix_len, iter |-> key_values.response.items,
     owned |-> TRUE]

\* DynamoDbKeyValueIterator::next and DynamoDbKeyValueIteratorOwned::next
KeyValueIteratorNext(it) ==
    IF it.iter = <<>> THEN [it |-> it, out |-> None]
    ELSE [it |-> [it EXCEPT !.iter = Tail(@)],
          out |-> Some(IF it.owned
                       THEN extract_key_value_owned(it.prefix_len, Head(it.iter))
                       ELSE extract_key_value(it.prefix_len, Head(it.iter)))]

\* the outcomes of the query of find_key_values_by_prefix
KeyValueQueryOutcomes(tbl, key_prefix) ==
    {Ok(r) : r \in get_query_output(tbl, {KEY_ATTRIBUTE, VALUE_ATTRIBUTE}, key_prefix, None)}
    \cup {Err("Query")}

find_key_values_by_prefix(key_prefix) ==
    /\ scan.pc = "idle"
    /\ \E q \in KeyValueQueryOutcomes(table, key_prefix) :
         scan' = IF q.ok
                 THEN [scan EXCEPT !.pc = "key_values", !.key_prefix = key_prefix,
                                   !.keys = Some(DynamoDbKeyValues(Len(key_prefix), q.val))]
                 ELSE [scan EXCEPT !.pc = "failed", !.key_prefix = key_prefix,
                                   !.error = Some(q.err)]
    /\ UNCHANGED <<table, paging, call, sent, read, ensure, scope, name>>

\* the consumer takes the borrowing or the owned iterator
TakeKeyValueIterator ==
    /\ scan.pc = "key_values"
    /\ \E it \in {KeyValuesIterator(scan.keys.val), into_iterator_owned(scan.keys.val)} :
         scan' = [scan EXCEPT !.pc = "kv_next", !.it = Some(it)]
    /\ UNCHANGED <<table, paging, call, sent, read, ensure, scope, name>>

KeyValueNext ==
    /\ scan.pc = "kv_next"
    /\ LET r == KeyValueIteratorNext(scan.it.val)
       IN  scan' = IF ~r.out.some
                   THEN [scan EXCEPT !.pc = "end", !.it = Some(r.it)]
                   ELSE IF r.out.val.ok
                   THEN [scan EXCEPT !.it = Some(r.it),
                                     !.yielded = Append(@, r.out.val.val)]
                   ELSE [scan EXCEPT !.pc = "failed", !.it = Some(r.it),
                                     !.error = Some(r.out.val.err)]
    /\ UNCHANGED <<table, paging, call, sent, read, ensure, scope, name>>

\* the value stored under key k in the tables of this scan
ValueFor(k) == <<Len(k)>> \o k

KeyValueTables == {[k \in ks |-> build_key_value(k, ValueFor(k))] : ks \in SUBSET ScanKeys}

InitKeyValues ==
    /\ table \in KeyValueTables
    /\ paging \in ScanPagings
    /\ call = [c \in Callers |-> IdleCall]
    /\ sent = <<>>
    /\ read = None
    /\ scan = IdleScan
    /\ ensure = IdleEnsure
    /\ scope = IdleScope
    /\ name = IdleName

NextKeyValues ==
    \/ \E key_prefix \in ScanPrefixes : find_key_values_by_prefix(key_prefix)
    \/ TakeKeyValueIterator
    \/ KeyValueNext

SpecKeyValues == InitKeyValues /\ [][NextKeyValues]_vars

(***************************************************************************)
(* Table creation.  ensure.exists tells whether the service has the table; *)
(* ensure.pc[c] is "idle", "create_table" (the request of caller c is on   *)
(* its way), "answered" (the service has handled it, ensure.result[c] is   *)
(* what send() will return) or "done"; ensure.log lists the calls that     *)
(* returned: the caller, what send() returned, what the call returned,     *)
(* what from_config returned to its caller, and how many calls had         *)
(* returned when the call was made.  ensure.calls counts the create-table  *)
(* requests sent.                                                          *)
(***************************************************************************)
TableStatus == {"New", "Existing"}

\* faulty variant of is_resource_in_use_exception: no error is recognised
is_resource_in_use_exception_never(error) == FALSE

\* faulty variant of is_resource_in_use_exception: every error is taken for it
is_resource_in_use_exception_always(error) == TRUE

is_resource_in_use_exception(error) == error = "ResourceInUseException"

\* CreateTableError::CreateTable, which error.into() builds from the error
\* of the service
CreateTableError(error) == [CreateTable |-> error]

\* the match on the result of send() in create_table_if_needed
CreateTableMatch(result) ==
    IF result.ok THEN Ok("New")
    ELSE IF is_resource_in_use_exception(result.err) THEN Ok("Existing")
    ELSE Err(CreateTableError(result.err))

\* from_config, given what create_table_if_needed returned: `?` returns its
\* error, else the client is returned with the status
from_config(tbl, table_status) ==
    IF table_status.ok THEN Ok(<<DynamoDbClient(tbl), table_status.val>>)
    ELSE table_status

\* the call, up to send()
create_table_if_needed(c) ==
    /\ ensure.pc[c] \in {"idle", "done"}
    /\ ensure.calls < MaxCalls
    /\ ensure' = [ensure EXCEPT !.pc[c] = "create_table", !.calls = @ + 1,
                                !.result[c] = None, !.sent_at[c] = Len(ensure.log)]
    /\ UNCHANGED <<table, paging, call, sent, read, scan, scope, name>>

\* the service handles the request: it creates the table, or finds it
CreateTable(c) ==
    /\ ensure.pc[c] = "create_table"
    /\ ensure' = [ensure EXCEPT
                    !.pc[c] = "answered",
                    !.exists = TRUE,
                    !.result[c] = Some(IF ensure.exists THEN Err("ResourceInUseException")
                                       ELSE Ok(Unit))]
    /\ UNCHANGED <<table, paging, call, sent, read, scan, scope, name>>

\* the request fails for another reason, before or after the service
\* handled it
CreateTableFails(c) ==
    /\ ensure.pc[c] \in {"create_table", "answered"}
    /\ ensure' = [ensure EXCEPT !.pc[c] = "answered",
                                !.result[c] = Some(Err("DispatchFailure"))]
    /\ ensure.result[c] # Some(Err("DispatchFailure"))
    /\ UNCHANGED <<table, paging, call, sent, read, scan, scope, name>>

\* send() returns and the call returns
CreateTableReturns(c) ==
    /\ ensure.pc[c] = "answered"
    /\ ensure' = [ensure EXCEPT
                    !.pc[c] = "done",
                    !.log = Append(@, [caller |-> c,
                                       response |-> ensure.result[c].val,
                                       result |-> CreateTableMatch(ensure.result[c].val),
                                       returned |-> from_config("table",
                                                        CreateTableMatch(ensure.result[c].val)),
                                       sent_at |-> ensure.sent_at[c]])]
    /\ UNCHANGED <<table, paging, call, sent, read, scan, scope, name>>

InitTable ==
    /\ table = <<>>
    /\ paging = Paging({}, FALSE)
    /\ call = [c \in Callers |-> IdleCall]
    /\ sent = <<>>
    /\ read = None
    /\ scan = IdleScan
    /\ ensure \in {[IdleEnsure EXCEPT !.exists = e] : e \in BOOLEAN}
    /\ scope = IdleScope
    /\ name = IdleName

NextTable ==
    \E c \in Callers :
        \/ create_table_if_needed(c)
        \/ CreateTable(c)
        \/ CreateTableFails(c)
        \/ CreateTableReturns(c)

SpecTable == InitTable /\ [][NextTable]_vars

(***************************************************************************)
(* Table names.  A string is the sequence of the code points of its        *)
(* characters; str_len is its length in bytes of UTF-8, which is what      *)
(* str::len returns.  name.string is the string given to from_str and      *)
(* name.result what the call returned, None before the call.               *)
(***************************************************************************)
\* char::len_utf8
len_utf8(character) ==
    IF character < 128 THEN 1
    ELSE IF character < 2048 THEN 2
    ELSE IF character < 65536 THEN 3
    ELSE 4

\* str::len
str_len(string) ==
    Len(string)
    + Cardinality({i \in 1..Len(string) : len_utf8(string[i]) >= 2})
    + Cardinality({i \in 1..Len(string) : len_utf8(string[i]) >= 3})
    + Cardinality({i \in 1..Len(string) : len_utf8(string[i]) >= 4})

\* char::is_ascii_alphanumeric: 0-9, A-Z, a-z
is_ascii_alphanumeric(character) ==
    \/ character \in 48..57
    \/ character \in 65..90
    \/ character \in 97..122

\* the closure given to all() in from_str; 46, 45 and 95 are . - _
is_table_name_character(character) ==
    \/ is_ascii_alphanumeric(character)
    \/ character = 46
    \/ character = 45
    \/ character = 95

TableName(string) == [name |-> string]

\* <TableName as FromStr>::from_str
from_str(string) ==
    IF str_len(string) < 3 THEN Err("TooShort")
    ELSE IF str_len(string) > 255 THEN Err("TooLong")
    ELSE IF ~(\A i \in 1..Len(string) : is_table_name_character(string[i]))
    THEN Err("InvalidCharacter")
    ELSE Ok(TableName(string))

FromStr ==
    /\ ~name.result.some
    /\ name' = [name EXCEPT !.result = Some(from_str(name.string))]
    /\ UNCHANGED <<table, paging, call, sent, read, scan, ensure, scope>>

\* the characters tried: a z A Z 0 9 . - _ and space / e-acute
NameChars == {97, 122, 65, 90, 48, 57, 46, 45, 95, 32, 47, 233}

\* the lengths tried, around the limits of from_str and of its error texts
NameLens == (0..4) \cup (62..65) \cup (254..257)

\* a string of n characters: the letter a, but for the character at i
NameString(n, i, character) == [j \in 1..n |-> IF j = i THEN character ELSE 97]

NameStrings == {NameString(n, i, ch) : n \in NameLens, i \in {1, 2, 64}, ch \in NameChars}

InitName ==
    /\ table = <<>>
    /\ paging = Paging({}, FALSE)
    /\ call = [c \in Callers |-> IdleCall]
    /\ sent = <<>>
    /\ read = None
    /\ scan = IdleScan
    /\ ensure = IdleEnsure
    /\ scope = IdleScope
    /\ name \in {[IdleName EXCEPT !.string = string] : string \in NameStrings}

NextName == FromStr

SpecName == InitName /\ [][NextName]_vars

(***************************************************************************)
(* Scoped contexts.  A context is its base key (the client is shared, the  *)
(* extra data plays no part).  derive_key appends the BCS serialization of *)
(* the scope value to the base key: a u8 is its byte, a u16 its two bytes  *)
(* in little-endian order, a byte string its length followed by its bytes. *)
(* Caller c works through child c: it writes its own value under the       *)
(* logical key X, reads X, and scans the keys of its scope.                *)
(***************************************************************************)
\* scope values; the number of a u8 or a u16 is held as <<n>>
U8(n) == [type |-> "u8", v |-> <<n>>]

U16(n) == [type |-> "u16", v |-> <<n>>]

Bytes(b) == [type |-> "bytes", v |-> b]

\* bcs::to_bytes
to_bytes(value) ==
    CASE value.type = "u8" -> <<value.v[1]>>
      [] value.type = "u16" -> <<value.v[1] % 256, value.v[1] \div 256>>
      [] value.type = "bytes" -> <<Len(value.v)>> \o value.v

derive_key(base_key, index) == base_key \o to_bytes(index)

\* faulty variant of clone_with_sub_scope: the extra of the parent is cloned
clone_with_sub_scope_cloned_extra(ctx, scope_prefix, new_extra) ==
    [db |-> ctx.db, base_key |-> derive_key(ctx.base_key, scope_prefix), extra |-> ctx.extra]

\* the context clone_with_sub_scope returns; the serialization of the scope
\* values used here does not fail
clone_with_sub_scope(ctx, scope_prefix, new_extra) ==
    [db |-> ctx.db, base_key |-> derive_key(ctx.base_key, scope_prefix), extra |-> new_extra]

\* the extra caller c gives to its child
ExtraBy(c) == <<c>>

\* the base keys of the parent
ParentKeys == {<<>>, <<9>>}

\* the logical key the children write and read
X == <<5>>

\* the value caller c writes
ValueBy(c) == <<c>>

ScopeValues == {U8(0), U8(1), U16(1), Bytes(<<>>)}

\* child c is derived, with a scope value distinct from the other children's,
\* before the children are used
CloneWithSubScope(c, scope_prefix) ==
    /\ ~scope.child[c].some
    /\ sent = <<>> /\ read = None /\ scan = IdleScan
    /\ \A d \in Callers : call[d].pc = "idle"
    /\ \A d \in Callers : scope.value[d] # Some(scope_prefix)
    /\ scope' = [scope EXCEPT !.child[c] = Some(clone_with_sub_scope(scope.parent, scope_prefix,
                                                                      ExtraBy(c))),
                              !.value[c] = Some(scope_prefix)]
    /\ UNCHANGED <<table, paging, call, sent, read, scan, ensure, name>>

\* caller c writes its value under X through its child
ChildWrite(c) ==
    /\ scope.child[c].some
    /\ call[c].pc = "idle"
    /\ Submit(c, {<<Put(scope.child[c].val.base_key \o X, ValueBy(c))>>})

\* caller c reads X through its child
ChildRead(c) ==
    /\ scope.child[c].some
    /\ \A d \in Callers : call[d].pc \in {"idle", "done"}
    /\ read_key_bytes(scope.child[c].val.base_key \o X)

\* caller c scans the keys of its child
ChildScan(c) ==
    /\ scope.child[c].some
    /\ find_keys_by_prefix(scope.child[c].val.base_key)

InitScope ==
    /\ table = <<>>
    /\ paging = Paging({}, FALSE)
    /\ call = [c \in Callers |-> IdleCall]
    /\ sent = <<>>
    /\ read = None
    /\ scan = IdleScan
    /\ ensure = IdleEnsure
    /\ scope \in {[IdleScope EXCEPT !.parent.base_key = b] : b \in ParentKeys}
    /\ name = IdleName

NextScope ==
    \/ \E c \in {1, 2} :
          \/ \E v \in ScopeValues : CloneWithSubScope(c, v)
          \/ ChildWrite(c)
          \/ SubmitChunk(c)
          \/ ChildRead(c)
          \/ ChildScan(c)
    \/ KeysIterator
    \/ IteratorNext

SpecScope == InitScope /\ [][NextScope]_vars

(***************************************************************************)
(* write_batch on a table whose items may come back from a query without   *)
(* their key attribute, or with a key attribute that is not a binary blob. *)
(***************************************************************************)
DamagedKeys == {<<1, 1>>, <<1, 2>>, <<2, 1>>}

\* the items a query may return for key k: well-formed, without the key
\* attribute, or with a key attribute that is not a binary blob
DamagedItemsOf(k) ==
    {build_key_value(k, OldValue),
     [a \in {PARTITION_ATTRIBUTE, VALUE_ATTRIBUTE} |-> build_key_value(k, OldValue)[a]],
     [build_key_value(k, OldValue) EXCEPT ![KEY_ATTRIBUTE] = S(k)]}

DamagedTables ==
    UNION {{t \in [ks -> UNION {DamagedItemsOf(k) : k \in ks}] :
               \A k \in ks : t[k] \in DamagedItemsOf(k)}
           : ks \in SUBSET DamagedKeys}

DamagedOps ==
    {DeletePrefix(<<1>>), DeletePrefix(<<2>>), Put(<<2, 1>>, <<1>>), Delete(<<1, 2>>)}

DamagedBatches == UNION {[1..n -> DamagedOps] : n \in 1..2}

DamagedPagings == {Paging({}, FALSE), Paging(DamagedKeys, TRUE)}

InitDamaged ==
    /\ table \in DamagedTables
    /\ paging \in DamagedPagings
    /\ call = [c \in Callers |-> IdleCall]
    /\ sent = <<>>
    /\ read = None
    /\ scan = IdleScan
    /\ ensure = IdleEnsure
    /\ scope = IdleScope
    /\ name = IdleName

NextDamaged ==
    \/ SubmitOnce(1, DamagedBatches)
    \/ FindKeys(1)
    \/ Iterator(1)
    \/ NextPage(1)
    \/ QueryFails(1)
    \/ SubmitChunk(1)
    \/ ChunkFails(1)

SpecDamaged == InitDamaged /\ [][NextDamaged]_vars

(***************************************************************************)
(* Two concurrent callers of write_batch on one table.  Caller c touches   *)
(* the keys that start with byte c only; the steps of the two calls (their *)
(* scans and their batch-write requests) interleave in every way.          *)
(***************************************************************************)
PairKeys(c) == {<<c>>, <<c, 1>>, <<c, 2>>}

PairTables ==
    {TableOf(ks, OldValue) :
        ks \in {{}, {<<1, 1>>, <<2, 1>>}, {<<1>>, <<1, 2>>, <<2, 2>>},
                PairKeys(1) \cup PairKeys(2)}}

PairBatches(c) ==
    {<<>>,
     <<Put(<<c, 1>>, <<c>>)>>,
     <<Delete(<<c, 2>>)>>,
     <<DeletePrefix(<<c>>)>>,
     <<Delete(<<c, 1>>), Put(<<c, 2>>, <<c>>)>>,
     <<DeletePrefix(<<c>>), Put(<<c, 1>>, <<c>>)>>}

PairPagings == {Paging({}, FALSE), Paging({<<1>>, <<1, 1>>, <<2, 1>>}, TRUE)}

InitPair ==
    /\ table \in PairTables
    /\ paging \in PairPagings
    /\ call = [c \in Callers |-> IdleCall]
    /\ sent = <<>>
    /\ read = None
    /\ scan = IdleScan
    /\ ensure = IdleEnsure
    /\ scope = IdleScope
    /\ name = IdleName

NextPair ==
    \E c \in {1, 2} :
        \/ SubmitOnce(c, PairBatches(c))
        \/ FindKeys(c)
        \/ Iterator(c)
        \/ NextPage(c)
        \/ QueryFails(c)
        \/ SubmitChunk(c)
        \/ ChunkFails(c)

SpecPair == InitPair /\ [][NextPair]_vars

(***************************************************************************)
(* Two concurrent callers of write_batch over the same keys, each with a   *)
(* batch of more than one chunk: caller c puts its value under every key   *)
(* of the run, after a DeletePrefix of the run or without one.             *)
(***************************************************************************)
OverlapBatches(c) ==
    {PutRun(1, MaxRun, <<c>>),
     <<DeletePrefix(<<1>>)>> \o PutRun(1, MaxRun, <<c>>)}

OverlapTables == {TableOf(RunKeys(1, n), OldValue) : n \in {0, 2, MaxRun}}

\* the scan of the run comes back in one page or in two
OverlapPagings == {Paging({}, FALSE), Paging({<<1, 1>>}, FALSE)}

InitOverlap ==
    /\ table \in OverlapTables
    /\ paging \in OverlapPagings
    /\ call = [c \in Callers |-> IdleCall]
    /\ sent = <<>>
    /\ read = None
    /\ scan = IdleScan
    /\ ensure = IdleEnsure
    /\ scope = IdleScope
    /\ name = IdleName

NextOverlap ==
    \E c \in {1, 2} :
        \/ SubmitOnce(c, OverlapBatches(c))
        \/ FindKeys(c)
        \/ Iterator(c)
        \/ NextPage(c)
        \/ QueryFails(c)
        \/ SubmitChunk(c)
        \/ ChunkFails(c)

SpecOverlap == InitOverlap /\ [][NextOverlap]_vars

(***************************************************************************)
(* Definitions the properties share.                                       *)
(***************************************************************************)
\* the call of caller c returned success
Succeeded(c) == call[c].pc = "done" /\ call[c].result = Some(Ok(Unit))

\* the batch-write requests of the current call of caller c, in order
MySent(c) ==
    LET Mine(e) == e.caller = c /\ e.attempt = call[c].attempts
    IN  SelectSeq(sent, Mine)

\* the last read was made after the last batch-write request, and get_item
\* answered it
FreshRead == read.some /\ read.val.at = Len(sent) /\ read.val.result # Err("Get")

\* an operation of a batch affects key k
Affects(o, k) == IF o.op = "DeletePrefix" THEN IsPrefix(o.key_prefix, k) ELSE o.key = k

\* the index of the last operation of the batch that affects k, 0 if none does
LastAffecting(batch, k) ==
    LET I == {i \in 1..Len(batch) : Affects(batch[i], k)}
    IN  IF I = {} THEN 0 ELSE CHOOSE i \in I : \A j \in I : j <= i

\* the keys a batch names in a Put or a Delete
NamedKeys(batch) == {batch[i].key : i \in {j \in 1..Len(batch) : batch[j].op # "DeletePrefix"}}

\* the requests of every chunk of the two lists, in the order of submission
AllChunks(rec) ==
    LET nd == NumChunks(rec.delete_list)
        ni == NumChunks(rec.insert_list)
    IN  [i \in 1..(nd + ni) |->
            IF i <= nd
            THEN LET c == Chunk(rec.delete_list, i - 1)
                 IN  [j \in 1..Len(c) |-> DeleteRequest(c[j])]
            ELSE LET c == Chunk(rec.insert_list, i - 1 - nd)
                 IN  [j \in 1..Len(c) |-> PutRequest(c[j][1], c[j][2])]]

RECURSIVE ApplyAccepted(_, _)
\* the table after the accepted requests of a list of submissions
ApplyAccepted(tbl, subs) ==
    IF subs = <<>> THEN tbl
    ELSE ApplyAccepted(IF Head(subs).ok THEN batch_write_item(tbl, Head(subs).requests)
                       ELSE tbl, Tail(subs))

\* the table a write_batch call leaves when none of its network calls fails
FailureFree(tbl, batch) ==
    LET ops == simplify(batch)
        dels == {ops[i].key : i \in {j \in 1..Len(ops) : ops[j].op = "Delete"}}
                \cup {k \in DOMAIN tbl :
                        \E i \in 1..Len(ops) :
                            ops[i].op = "DeletePrefix" /\ IsPrefix(ops[i].key_prefix, k)}
        puts == {i \in 1..Len(ops) : ops[i].op = "Put"}
        putkeys == {ops[i].key : i \in puts}
        ValueOf(k) == ops[CHOOSE i \in puts : ops[i].key = k].value
    IN  [k \in ((DOMAIN tbl) \ dels) \cup putkeys |->
            IF k \in putkeys THEN build_key_value(k, ValueOf(k)) ELSE tbl[k]]

RECURSIVE Flatten(_)
\* the items of a list of submissions, in the order they were submitted
Flatten(subs) ==
    IF subs = <<>> THEN <<>> ELSE Head(subs).requests \o Flatten(Tail(subs))

\* the deletes the operations produce on table tbl, as pairs <<j, key>>:
\* operation j is a Delete of the key, or a DeletePrefix that covers it
DeletePairs(ops, tbl) ==
    {<<j, ops[j].key>> : j \in {i \in 1..Len(ops) : ops[i].op = "Delete"}}
    \cup UNION {{<<j, k>> : k \in {x \in DOMAIN tbl : IsPrefix(ops[j].key_prefix, x)}}
               : j \in {i \in 1..Len(ops) : ops[i].op = "DeletePrefix"}}

\* the place of a pair in the order the operations produce the deletes: by
\* operation, and in ascending key order under one DeletePrefix
Rank(P, pr) ==
    1 + Cardinality({q \in P : q[1] < pr[1] \/ (q[1] = pr[1] /\ LexLess(q[2], pr[2]))})

(***************************************************************************)
(* C1: a read made after write_batch([Put(k, v)]) returned success, with   *)
(* no write since, returns Some(v), the bytes written; a read of a key     *)
(* that was just deleted, or that the table holds no item for, returns     *)
(* None.                                                                   *)
(***************************************************************************)
C1_RoundTrip ==
    FreshRead =>
        LET k == read.val.key
            b == call[1].batch
        IN  /\ (Succeeded(1) /\ Len(b) = 1 /\ b[1].op = "Put" /\ b[1].key = k)
                  => read.val.result = Ok(Some(b[1].value))
            /\ (Succeeded(1) /\ b = <<Delete(k)>>) => read.val.result = Ok(None)
            /\ (call[1].pc \in {"idle", "done"} /\ k \notin DOMAIN table)
                  => read.val.result = Ok(None)

\* a Put over a malformed item was written and read back
C1_Witness ==
    /\ FreshRead /\ Succeeded(1)
    /\ call[1].batch = <<Put(<<1, 1>>, <<2>>)>>
    /\ call[1].before = [k \in {<<1, 1>>} |-> build_key(<<1, 1>>)]
    /\ read.val.key = <<1, 1>>
    /\ read.val.result = Ok(Some(<<2>>))

(***************************************************************************)
(* C10: read_key_bytes returns None only when the table holds no item for  *)
(* the key; for an item without a value attribute it fails with            *)
(* MissingValue, for a value attribute that is not a binary blob with      *)
(* WrongValueType.                                                         *)
(***************************************************************************)
C10_MalformedItem ==
    (FreshRead /\ call[1].pc \in {"idle", "done"}) =>
        LET k == read.val.key IN
        /\ read.val.result = Ok(None) => k \notin DOMAIN table
        /\ (k \in DOMAIN table /\ VALUE_ATTRIBUTE \notin DOMAIN table[k])
              => read.val.result = Err("MissingValue")
        /\ (k \in DOMAIN table /\ VALUE_ATTRIBUTE \in DOMAIN table[k]
                /\ table[k][VALUE_ATTRIBUTE].t # "B")
              => read.val.result = Err("WrongValueType")

\* an item without its value attribute was read
C10_Witness ==
    /\ FreshRead /\ call[1].pc = "idle"
    /\ read.val.key \in DOMAIN table
    /\ VALUE_ATTRIBUTE \notin DOMAIN table[read.val.key]
    /\ read.val.result = Err("MissingValue")

(***************************************************************************)
(* C3: after write_batch([DeletePrefix(p)]) returned success, the table is *)
(* the table before the call without the keys that start with p: none of   *)
(* them remains, and every other key keeps its item.                       *)
(***************************************************************************)
C3_PrefixDelete ==
    (Succeeded(1) /\ Len(call[1].batch) = 1 /\ call[1].batch[1].op = "DeletePrefix") =>
        LET p == call[1].batch[1].key_prefix
            before == call[1].before
        IN  table = [k \in {j \in DOMAIN before : ~IsPrefix(p, j)} |-> before[k]]

\* more than 25 keys under the prefix, scanned in several pages, deleted in
\* two requests, and the key outside the prefix is left
C3_Witness ==
    /\ Succeeded(1)
    /\ call[1].batch = <<DeletePrefix(<<1>>)>>
    /\ DOMAIN call[1].before = RunKeys(1, MaxRun) \cup {<<2, 1>>}
    /\ call[1].paged
    /\ Len(MySent(1)) = 2
    /\ table = [k \in {<<2, 1>>} |-> call[1].before[k]]

(***************************************************************************)
(* C4: every batch-write request carries between 1 and 25 items; when      *)
(* write_batch returned success, every key of the delete list and every    *)
(* pair of the put list was carried by a request of the call, every put    *)
(* is in the table and every deleted key that was not put is absent.       *)
(***************************************************************************)
C4_Chunking ==
    /\ \A i \in 1..Len(sent) :
          Len(sent[i].requests) >= 1 /\ Len(sent[i].requests) <= 25
    /\ Succeeded(1) =>
          LET rec == call[1]
              mine == MySent(1)
              Carried(r) == \E i \in 1..Len(mine) : \E j \in 1..Len(mine[i].requests) :
                                mine[i].requests[j] = r
              putkeys == {rec.insert_list[i][1] : i \in 1..Len(rec.insert_list)}
          IN  /\ \A i \in 1..Len(rec.delete_list) : Carried(DeleteRequest(rec.delete_list[i]))
              /\ \A i \in 1..Len(rec.insert_list) :
                    Carried(PutRequest(rec.insert_list[i][1], rec.insert_list[i][2]))
              /\ \A i \in 1..Len(rec.insert_list) :
                    /\ rec.insert_list[i][1] \in DOMAIN table
                    /\ table[rec.insert_list[i][1]]
                         = build_key_value(rec.insert_list[i][1], rec.insert_list[i][2])
              /\ \A i \in 1..Len(rec.delete_list) :
                    rec.delete_list[i] \notin putkeys => rec.delete_list[i] \notin DOMAIN table

\* a batch of more than 25 puts on an empty table: two requests, all readable
C4_Witness ==
    /\ Succeeded(1)
    /\ call[1].batch = PutRun(1, MaxRun, <<1>>)
    /\ call[1].before = <<>>
    /\ Len(MySent(1)) = 2
    /\ table = TableOf(RunKeys(1, MaxRun), <<1>>)

(***************************************************************************)
(* C5: after write_batch returned success, every key that an operation of  *)
(* the batch affects holds the outcome of the last operation of the batch  *)
(* that affects it: the value of a Put, no item for a Delete or a          *)
(* DeletePrefix.                                                           *)
(***************************************************************************)
C5_LastWriteWins ==
    Succeeded(1) =>
        \A k \in (DOMAIN call[1].before) \cup (DOMAIN table) \cup NamedKeys(call[1].batch) :
            LET b == call[1].batch
                i == LastAffecting(b, k)
            IN  i > 0 =>
                  IF b[i].op = "Put"
                  THEN k \in DOMAIN table /\ table[k] = build_key_value(k, b[i].value)
                  ELSE k \notin DOMAIN table

\* DeletePrefix then Put under the prefix: the put key holds the new value,
\* the other stored key under the prefix is gone
C5_Witness ==
    /\ Succeeded(1)
    /\ call[1].batch = <<DeletePrefix(<<1>>), Put(<<1, 1>>, <<2>>)>>
    /\ DOMAIN call[1].before = SmallKeys
    /\ DOMAIN table = {<<1, 1>>, <<2, 1>>}
    /\ table[<<1, 1>>] = build_key_value(<<1, 1>>, <<2>>)

(***************************************************************************)
(* C6: the requests of a call are the first chunks of its two lists, in    *)
(* order, each submitted once; a failed request is the last one of the     *)
(* call, and the call then returned the error; the table is the table      *)
(* before the call with the accepted requests applied.                     *)
(***************************************************************************)
C6_FailedPrefix ==
    LET rec == call[1]
        mine == MySent(1)
        A == AllChunks(rec)
    IN  /\ Len(mine) <= Len(A)
        /\ \A i \in 1..Len(mine) : mine[i].requests = A[i]
        /\ \A i \in 1..Len(mine) :
              ~mine[i].ok => /\ i = Len(mine)
                          /\ rec.pc = "done"
                          /\ rec.result = Some(Err("BatchWriteItem"))
        /\ rec.attempts > 0 => table = ApplyAccepted(rec.before, mine)

\* the third request of a call failed after two were applied
C6_Witness ==
    /\ call[1].pc = "done"
    /\ call[1].result = Some(Err("BatchWriteItem"))
    /\ Len(MySent(1)) = 3
    /\ ~MySent(1)[3].ok
    /\ Len(AllChunks(call[1])) = 4
    /\ table # call[1].before

(***************************************************************************)
(* C7: whenever a call of write_batch(b) returned success, on the first    *)
(* submission or on a resubmission after failed or successful calls of the *)
(* same batch, the table is the one a single failure-free call of          *)
(* write_batch(b) leaves on the original table.                            *)
(***************************************************************************)
C7_IdempotentRetry ==
    Succeeded(1) => table = FailureFree(call[1].orig, call[1].batch)

\* the first call failed after a request was applied, the second succeeded
C7_Witness ==
    /\ Succeeded(1)
    /\ call[1].attempts = 2
    /\ \E i \in 2..Len(sent) :
          /\ sent[i].attempt = 1 /\ ~sent[i].ok
          /\ sent[i - 1].attempt = 1 /\ sent[i - 1].ok
    /\ table # call[1].orig

(***************************************************************************)
(* C2: the keys next() has returned are the first stored keys that start   *)
(* with the prefix, in ascending byte order, each once and without the     *)
(* prefix; when next() returns None they are all of them, however the      *)
(* service cuts the result into pages.                                     *)
(***************************************************************************)
C2_ScanComplete ==
    LET p == scan.key_prefix
        ks == SortKeys({k \in DOMAIN table : IsPrefix(p, k)})
        expected == [i \in 1..Len(ks) |-> SubSeq(ks[i], Len(p) + 1, Len(ks[i]))]
    IN  scan.pc # "idle" =>
          /\ Len(scan.yielded) <= Len(expected)
          /\ scan.yielded = SubSeq(expected, 1, Len(scan.yielded))
          /\ scan.pc = "end" => scan.yielded = expected

\* four keys under the prefix, one not, came in three pages or more
C2_Witness ==
    /\ scan.pc = "end"
    /\ scan.key_prefix = <<1>>
    /\ DOMAIN table = ScanKeys
    /\ scan.yielded = << <<>>, <<1>>, <<1, 1>>, <<2>> >>
    /\ scan.pages >= 2

(***************************************************************************)
(* C8: over all the calls of create_table_if_needed that returned, in any  *)
(* interleaving: none returned the error that the table exists; every call *)
(* whose request the service answered, by creating the table or by         *)
(* finding it, returned a status; at most one returned New, and only a     *)
(* call whose request created the table; the others returned Existing.     *)
(***************************************************************************)
C8_IdempotentCreate ==
    LET log == ensure.log
        News == {i \in 1..Len(log) : log[i].result = Ok("New")}
    IN  /\ \A i \in 1..Len(log) :
              /\ log[i].result # Err(CreateTableError("ResourceInUseException"))
              /\ log[i].response = Ok(Unit) <=> log[i].result = Ok("New")
              /\ log[i].response = Err("ResourceInUseException")
                    <=> log[i].result = Ok("Existing")
              /\ log[i].result.ok => log[i].result.val \in TableStatus
        /\ Cardinality(News) <= 1
        /\ \A i \in News : \A j \in 1..Len(log) :
              (j # i /\ log[j].result.ok) => log[j].result = Ok("Existing")

\* two callers whose calls overlapped: one returned New, the other Existing
C8_Witness ==
    /\ Len(ensure.log) = 2
    /\ ensure.log[1].caller # ensure.log[2].caller
    /\ ensure.log[1].sent_at = 0 /\ ensure.log[2].sent_at = 0
    /\ {ensure.log[1].result, ensure.log[2].result} = {Ok("New"), Ok("Existing")}

(***************************************************************************)
(* C9: for children derived from the same parent with distinct scope       *)
(* values: what a child reads for X is what was written through it         *)
(* (nothing before its first write, its own value after a successful       *)
(* write), whatever is written through the other children; and a scan      *)
(* through a child yields only keys written through it.                    *)
(***************************************************************************)
C9_SubScopeIsolation ==
    \A c \in Callers :
        scope.child[c].some =>
            LET base_key == scope.child[c].val.base_key IN
            /\ (FreshRead /\ read.val.key = base_key \o X) =>
                  /\ call[c].attempts = 0 => read.val.result = Ok(None)
                  /\ Succeeded(c) => read.val.result = Ok(Some(ValueBy(c)))
            /\ (scan.pc # "idle" /\ scan.key_prefix = base_key) =>
                  \A i \in 1..Len(scan.yielded) :
                      scan.yielded[i] = X /\ call[c].attempts > 0

(***************************************************************************)
(* C11: when next() of a key/value iterator, borrowing or owned, returns   *)
(* None, the pairs it returned are all the stored pairs whose key starts   *)
(* with the prefix, each once, in ascending key order, the keys without    *)
(* the prefix, however the service cuts the result into pages.             *)
(***************************************************************************)
C11_KeyValueScanComplete ==
    LET p == scan.key_prefix
        ks == SortKeys({k \in DOMAIN table : IsPrefix(p, k)})
        expected == [i \in 1..Len(ks) |->
                        <<SubSeq(ks[i], Len(p) + 1, Len(ks[i])),
                          table[ks[i]][VALUE_ATTRIBUTE].v>>]
    IN  scan.pc = "end" => scan.yielded = expected

(***************************************************************************)
(* C12: a chunk is submitted only after every earlier chunk of the call    *)
(* was answered with success; the items submitted so far are the first     *)
(* items that the simplified batch produces, in its order, the deletes     *)
(* before the puts; at success they are all of them.                       *)
(***************************************************************************)
C12_WriteOrdering ==
    LET rec == call[1]
        mine == MySent(1)
        flat == Flatten(mine)
        P == DeletePairs(rec.operations, rec.before)
        D == Cardinality(P)
        puts == SelectSeq(rec.operations, IsPut)
    IN  /\ \A i \in 1..(Len(mine) - 1) : mine[i].ok
        /\ Len(flat) <= D + Len(puts)
        /\ Succeeded(1) => Len(flat) = D + Len(puts)
        /\ flat # <<>> =>
              /\ \A pr \in P :
                    Rank(P, pr) <= Len(flat) => flat[Rank(P, pr)] = DeleteRequest(pr[2])
              /\ \A i \in 1..Len(puts) :
                    D + i <= Len(flat) => flat[D + i] = PutRequest(puts[i].key, puts[i].value)

\* two delete chunks, then two put chunks
C12_Witness ==
    /\ Succeeded(1)
    /\ Len(MySent(1)) = 4
    /\ \A i \in 1..2 : MySent(1)[i].requests[1].kind = "DeleteRequest"
    /\ \A i \in 3..4 : MySent(1)[i].requests[1].kind = "PutRequest"

(***************************************************************************)
(* C13  Scan failure: when a page query of a key scan fails, the call of   *)
(* next() that needed the page returns the error, no key is yielded after  *)
(* the error, and the keys yielded so far are stored keys of the prefix,   *)
(* in ascending order and without their prefix.                            *)
(***************************************************************************)
C13_ScanFailure ==
    LET p == scan.key_prefix
        ks == SortKeys({k \in DOMAIN table : IsPrefix(p, k)})
        expected == [i \in 1..Len(ks) |-> SubSeq(ks[i], Len(p) + 1, Len(ks[i]))]
    IN  /\ scan.pc = "failed" => scan.error.some
        /\ scan.at_error.some => Len(scan.yielded) = scan.at_error.val
        /\ Len(scan.yielded) <= Len(expected)
        /\ scan.yielded = SubSeq(expected, 1, Len(scan.yielded))

(***************************************************************************)
(* C14  Table name length: from_str returns TooShort for a string shorter  *)
(* than 3 and TooLong for a string longer than 63, and returns a           *)
(* TableName only for a string of 3 to 63.  Lengths are those str::len     *)
(* returns.                                                                *)
(***************************************************************************)
C14_NameLength ==
    name.result.some =>
        LET n == str_len(name.string)
            r == name.result.val
        IN  /\ n < 3 => r = Err("TooShort")
            /\ n > 63 => r = Err("TooLong")
            /\ r.ok => n \in 3..63

(***************************************************************************)
(* C15  Table name characters: from_str accepts a string of 3 to 63 only   *)
(* if each of its characters is a lowercase ASCII letter, a digit, a       *)
(* period, a hyphen or an underscore, and returns InvalidCharacter for     *)
(* any other string of that length.                                        *)
(***************************************************************************)
C15_NameCharacters ==
    (name.result.some /\ str_len(name.string) \in 3..63) =>
        LET allowed == (97..122) \cup (48..57) \cup {46, 45, 95}
            r == name.result.val
        IN  IF \A i \in 1..Len(name.string) : name.string[i] \in allowed
            THEN r = Ok(TableName(name.string))
            ELSE r = Err("InvalidCharacter")

(***************************************************************************)
(* C16  Concurrent calls on disjoint keys commute: when the two calls,     *)
(* whose steps interleaved in any way, both returned success, the table is *)
(* the one that running the first call and then the second leaves, and the *)
(* one that running the second and then the first leaves.                  *)
(***************************************************************************)
C16_DisjointCommute ==
    (Succeeded(1) /\ Succeeded(2)) =>
        LET first == CHOOSE c \in {1, 2} : call[c].start = 0
            t0 == call[first].before
            b1 == call[1].batch
            b2 == call[2].batch
        IN  /\ table = FailureFree(FailureFree(t0, b1), b2)
            /\ table = FailureFree(FailureFree(t0, b2), b1)

\* both calls delete a prefix and put under it, and the requests of the two
\* calls alternate: delete of 1, delete of 2, put of 1, put of 2
C16_Witness ==
    /\ Succeeded(1) /\ Succeeded(2)
    /\ call[1].batch = <<DeletePrefix(<<1>>), Put(<<1, 1>>, <<1>>)>>
    /\ call[2].batch = <<DeletePrefix(<<2>>), Put(<<2, 1>>, <<2>>)>>
    /\ Len(sent) = 4
    /\ [i \in 1..4 |-> sent[i].caller] = <<1, 2, 1, 2>>
    /\ call[2].start = 0
    /\ call[1].paged

(***************************************************************************)
(* C17  Empty work issues no writes: write_batch of the empty batch        *)
(* returns success without a network call (the call is at no query and at  *)
(* no batch-write request in any state); write_batch of a batch of         *)
(* DeletePrefix operations none of which matches a stored key is only ever *)
(* at a query of a scan, submits no batch-write request, leaves the table  *)
(* as it was, and returns success unless a query failed.                   *)
(***************************************************************************)
C17_EmptyWork ==
    LET rec == call[1]
        b == rec.batch
        only_prefixes ==
            /\ b # <<>>
            /\ \A i \in 1..Len(b) :
                  /\ b[i].op = "DeletePrefix"
                  /\ \A k \in DOMAIN rec.before : ~IsPrefix(b[i].key_prefix, k)
    IN  rec.attempts > 0 =>
          /\ b = <<>> =>
                /\ rec.pc = "done" /\ rec.result = Some(Ok(Unit))
                /\ MySent(1) = <<>>
                /\ table = rec.before
          /\ only_prefixes =>
                /\ rec.pc \in {"find", "iterator", "next", "done"}
                /\ MySent(1) = <<>>
                /\ table = rec.before
                /\ rec.pc = "done" => rec.result \in {Some(Ok(Unit)), Some(Err("Query"))}

\* two DeletePrefix operations on a table with one key, outside the prefix:
\* the call returned success, nothing was submitted, and the key is left
C17_Witness ==
    /\ Succeeded(1)
    /\ call[1].batch = <<DeletePrefix(<<1>>), DeletePrefix(<<1>>)>>
    /\ call[1].before = TableOf({<<2, 1>>}, OldValue)
    /\ sent = <<>>
    /\ table = TableOf({<<2, 1>>}, OldValue)

(***************************************************************************)
(* C18  Table creation failure: a call whose create-table request failed   *)
(* for another reason than the table being in use made from_config return  *)
(* the CreateTableError of that failure: no client and no status; and the  *)
(* request was not sent again: the requests sent are one per call that     *)
(* returned or is under way.                                               *)
(***************************************************************************)
C18_CreateFailure ==
    LET log == ensure.log
        under_way == {c \in Callers : ensure.pc[c] \in {"create_table", "answered"}}
    IN  /\ \A i \in 1..Len(log) :
              (~log[i].response.ok /\ log[i].response.err # "ResourceInUseException") =>
                  /\ log[i].result = Err(CreateTableError(log[i].response.err))
                  /\ log[i].returned = Err(CreateTableError(log[i].response.err))
        /\ ensure.calls = Len(log) + Cardinality(under_way)

\* the table exists, the answer of the service was lost, and from_config
\* returned the error
C18_Witness ==
    /\ Len(ensure.log) >= 1
    /\ ensure.exists
    /\ ensure.log[1].response = Err("DispatchFailure")
    /\ ensure.log[1].returned = Err(CreateTableError("DispatchFailure"))

(***************************************************************************)
(* C19  End of a key scan: next() returns None only when the page it       *)
(* iterates is exhausted and the page fetched last carried no continuation *)
(* token; a fetched page that is empty and carries a token does not end    *)
(* the scan.                                                               *)
(***************************************************************************)
C19_EndOfScan ==
    scan.pc = "end" =>
        /\ scan.it.val.iter = <<>>
        /\ ~scan.it.val.response.last_evaluated_key.some

(***************************************************************************)
(* C20  Page fetch protocol of a key scan: every page query of next() was  *)
(* issued when no item of the page being handed out was left, and carried  *)
(* the continuation token that was returned with that page.                *)
(***************************************************************************)
C20_PageFetch ==
    \A i \in 1..Len(scan.queries) :
        /\ scan.queries[i].left = 0
        /\ scan.queries[i].carried = scan.queries[i].page_token

(***************************************************************************)
(* C21  Scans precede writes: while write_batch is at a query of a scan it *)
(* has submitted no batch-write request, and when it has submitted one     *)
(* every DeletePrefix of the batch was expanded; when the call returned    *)
(* the error of a query or of a malformed item, and whenever a             *)
(* DeletePrefix of the batch covers a malformed item, nothing was          *)
(* submitted, the table is as before the call, and the call does not       *)
(* return success.                                                         *)
(***************************************************************************)
C21_ScansPrecedeWrites ==
    LET rec == call[1]
        Malformed(item) ==
            KEY_ATTRIBUTE \notin DOMAIN item \/ item[KEY_ATTRIBUTE].t # "B"
        covers_malformed ==
            \E i \in 1..Len(rec.operations) :
                /\ rec.operations[i].op = "DeletePrefix"
                /\ \E k \in DOMAIN rec.before :
                      /\ IsPrefix(rec.operations[i].key_prefix, k)
                      /\ Malformed(rec.before[k])
        scan_errors == {Some(Err("Query")), Some(Err("MissingKey")), Some(Err("WrongKeyType"))}
    IN  rec.attempts > 0 =>
          /\ rec.pc \in {"find", "iterator", "next"} => MySent(1) = <<>>
          /\ MySent(1) # <<>> => rec.op_idx > Len(rec.operations)
          /\ (rec.pc = "done" /\ rec.result \in scan_errors) =>
                (MySent(1) = <<>> /\ table = rec.before)
          /\ covers_malformed =>
                /\ MySent(1) = <<>> /\ table = rec.before
                /\ rec.pc = "done" => rec.result \in scan_errors

\* the second page of the scan holds an item without key attribute: the
\* call returned MissingKey after a page query, and wrote nothing
C21_Witness ==
    /\ call[1].pc = "done"
    /\ call[1].result = Some(Err("MissingKey"))
    /\ call[1].batch = <<DeletePrefix(<<1>>), Put(<<2, 1>>, <<1>>)>>
    /\ call[1].paged
    /\ sent = <<>>
    /\ table = call[1].before

(***************************************************************************)
(* C22  clone_with_sub_scope: the step that derives a child gives it the   *)
(* base key of the parent followed by the serialized scope value, the new  *)
(* extra, and the client of the parent; the step changes neither the table *)
(* nor the requests submitted, and no step changes the parent or a child   *)
(* that was derived.                                                       *)
(***************************************************************************)
C22_SubScope ==
    [][/\ scope'.parent = scope.parent
       /\ \A c \in Callers :
             /\ scope.child[c].some => scope'.child[c] = scope.child[c]
             /\ (~scope.child[c].some /\ scope'.child[c].some) =>
                   LET child == scope'.child[c].val
                       bytes == to_bytes(scope'.value[c].val)
                   IN  /\ child.base_key = scope.parent.base_key \o bytes
                       /\ IsPrefix(scope.parent.base_key, child.base_key)
                       /\ child.extra = ExtraBy(c)
                       /\ child.db = scope.parent.db
                       /\ table' = table /\ sent' = sent /\ call' = call
                       /\ scan' = scan /\ read' = read]_vars

\* a child of the parent with base key [9], derived with the u16 1, after
\* the other child wrote through its own context
C22_Witness ==
    /\ scope.parent.base_key = <<9>>
    /\ scope.child[1].some /\ scope.child[2].some
    /\ scope.value[1] = Some(U16(1))
    /\ scope.child[1].val = [db |-> DynamoDbClient("table"), base_key |-> <<9, 1, 0>>,
                              extra |-> <<1>>]
    /\ Succeeded(2)

(***************************************************************************)
(* C23  Batch writes are not isolated across chunks: when two concurrent   *)
(* calls over the same keys, of more than one chunk each, both returned    *)
(* success, every key holds the value of one of the two calls, and the     *)
(* keys of one chunk hold the value of the same call (a chunk is applied   *)
(* as one step); a table in which the keys of the first chunk hold the     *)
(* value of one call and the keys of the second chunk the value of the     *)
(* other is reached (C23_Witness).                                         *)
(***************************************************************************)
C23_ChunkInterleaving ==
    (Succeeded(1) /\ Succeeded(2)) =>
        /\ DOMAIN table = RunKeys(1, MaxRun)
        /\ \A k \in RunKeys(1, MaxRun) :
              table[k] \in {build_key_value(k, <<c>>) : c \in {1, 2}}
        /\ \A i, j \in 1..max_size_batch_write_item :
              table[<<1, i>>][VALUE_ATTRIBUTE] = table[<<1, j>>][VALUE_ATTRIBUTE]

\* the put chunks of the two calls alternated: the first chunk of keys ends
\* with the value of caller 1, the second with the value of caller 2
C23_Witness ==
    /\ Succeeded(1) /\ Succeeded(2)
    /\ Len(MySent(1)) >= 2 /\ Len(MySent(2)) >= 2
    /\ table[<<1, 1>>] = build_key_value(<<1, 1>>, <<1>>)
    /\ table[<<1, MaxRun>>] = build_key_value(<<1, MaxRun>>, <<2>>)

(***************************************************************************)
(* C24  Frame of write_batch: in every state during or after the calls,    *)
(* returned with success or with an error, a key that no operation of a    *)
(* batch affects (it is not the key of a Put or a Delete and does not      *)
(* start with the prefix of a DeletePrefix) is stored exactly when it was  *)
(* before the first call, and with the same item.                          *)
(***************************************************************************)
C24_Frame ==
    (\E c \in {1, 2} : call[c].attempts > 0) =>
        LET first == CHOOSE c \in {1, 2} : call[c].attempts > 0 /\ call[c].start = 0
            t0 == call[first].before
            Touched(k) ==
                \E c \in {1, 2} : \E i \in 1..Len(call[c].batch) :
                    Affects(call[c].batch[i], k)
        IN  \A k \in (DOMAIN t0) \cup (DOMAIN table) :
                ~Touched(k) => (k \in DOMAIN t0 /\ k \in DOMAIN table /\ table[k] = t0[k])

\* the only call deleted the keys under its prefix and then failed on its
\* put: the table changed, the keys of the other first byte are as before
C24_Witness ==
    /\ call[2].attempts = 0
    /\ call[1].pc = "done" /\ call[1].result = Some(Err("BatchWriteItem"))
    /\ call[1].batch = <<DeletePrefix(<<1>>), Put(<<1, 1>>, <<1>>)>>
    /\ Len(MySent(1)) = 2
    /\ DOMAIN call[1].before = PairKeys(1) \cup PairKeys(2)
    /\ DOMAIN table = PairKeys(2)
    /\ \A k \in PairKeys(2) : table[k] = call[1].before[k]

(***************************************************************************)
(* C25  No duplicate key inside a request: every batch-write request       *)
(* submitted names each key at most once; the delete list and the put list *)
(* of a call hold no key twice.                                            *)
(***************************************************************************)
C25_NoDuplicateKey ==
    LET rec == call[1]
        Distinct(seq, KeyOf(_)) ==
            \A a, b \in 1..Len(seq) : a # b => KeyOf(seq[a]) # KeyOf(seq[b])
        Self(k) == k
        First(pair) == pair[1]
    IN  /\ \A i \in 1..Len(sent) : Distinct(sent[i].requests, RequestKey)
        /\ Distinct(rec.delete_list, Self)
        /\ Distinct(rec.insert_list, First)

(***************************************************************************)
(* C26  Scan order under concurrent writes: whatever another caller puts   *)
(* or deletes between the page queries of a key scan, the keys the scan    *)
(* yields are strictly ascending (none is yielded twice), and each of them *)
(* was stored under the scan prefix when the scan fetched it: it is in the *)
(* table as the other caller found it or as it left it.                    *)
(***************************************************************************)
C26_ScanOrder ==
    LET ys == scan.yielded
        Stored(k) ==
            \/ scan.key_prefix \o k \in DOMAIN table
            \/ call[2].attempts > 0 /\ scan.key_prefix \o k \in DOMAIN call[2].before
    IN  /\ \A i, j \in 1..Len(ys) : i < j => LexLess(ys[i], ys[j])
        /\ \A i \in 1..Len(ys) : Stored(ys[i])

(***************************************************************************)
(* C27  Prefix stripping is in bounds: every item a key scan holds for     *)
(* extract_key carries a binary key at least prefix_len bytes long that    *)
(* starts with the scan prefix and is a stored key; extract_key returns    *)
(* the suffix that, put after the scan prefix, gives that key back; no     *)
(* decoding fails on the slice, and the scan prefix followed by a yielded  *)
(* suffix is a stored key.                                                 *)
(***************************************************************************)
C27_PrefixStripping ==
    LET held == (IF scan.keys.some
                 THEN {scan.keys.val.response.items[i] :
                          i \in 1..Len(scan.keys.val.response.items)}
                 ELSE {})
                \cup (IF scan.it.some
                      THEN {scan.it.val.iter[i] : i \in 1..Len(scan.it.val.iter)}
                      ELSE {})
        prefix_len == Len(scan.key_prefix)
        InBounds(item) ==
            /\ KEY_ATTRIBUTE \in DOMAIN item
            /\ item[KEY_ATTRIBUTE].t = "B"
            /\ prefix_len <= Len(item[KEY_ATTRIBUTE].v)
            /\ IsPrefix(scan.key_prefix, item[KEY_ATTRIBUTE].v)
            /\ item[KEY_ATTRIBUTE].v \in DOMAIN table
            /\ extract_key(prefix_len, item).ok
            /\ scan.key_prefix \o extract_key(prefix_len, item).val = item[KEY_ATTRIBUTE].v
    IN  /\ \A item \in held : InBounds(item)
        /\ (scan.keys.some => scan.keys.val.prefix_len = prefix_len)
        /\ (scan.it.some => scan.it.val.prefix_len = prefix_len)
        /\ scan.error # Some("panic")
        /\ \A i \in 1..Len(scan.yielded) :
               scan.key_prefix \o scan.yielded[i] \in DOMAIN table

\* a scan under a two-byte prefix of a table that also stores a shorter key
\* has fetched a page and yielded the empty and a non-empty suffix
C27_Witness ==
    /\ scan.pc = "end"
    /\ scan.key_prefix = <<1, 1>>
    /\ scan.yielded = << <<>>, <<1>> >>
    /\ scan.pages >= 1
    /\ <<1>> \in DOMAIN table

====
